---- MODULE Spec2Model ----
(***************************************************************************)
(* A model of the three point indexes of the nearest-neighbour library:   *)
(* the region quadtree (src/src/quadtree.cpp), the Z-order grid           *)
(* (src/src/zgrid.cpp) and the R-tree (src/data_structures/rtree.cpp),    *)
(* with the geometry of src/src/spatial.hpp.                              *)
(*                                                                         *)
(* Coordinates (coord_t, a double in the code) are integers counted in    *)
(* units of 0.005, so that the 0.01 nudge of the constructors is 2 and    *)
(* every midpoint of a build that returns is an integer.  Distances are   *)
(* kept squared: std::sqrt is strictly increasing on the integers the     *)
(* model reaches, so every comparison of two distances in the code is     *)
(* the same comparison of the two squares.                                *)
(***************************************************************************)
EXTENDS Integers, Sequences, FiniteSets, TLC

VARIABLES
    index,        \* which index object exists: "Quadtree", "Zgrid" or "Rtree"
    pc,           \* position of the caller / of query_knn
    point_data,   \* the records handed to build (the tests' point_data)
    nodes,        \* Quadtree / Zgrid: the nodes owned by root, by path of child indices
    leaves,       \* Quadtree::leaves (Zgrid::grid): the buckets of Datum
    res,          \* Zgrid: the resolution r given to build
    k,            \* query_knn: k
    query_point,  \* query_knn: query_point
    node_pq,      \* query_knn: node_pq (R-tree: the EntryPQ)
    datum_pq,     \* query_knn: datum_pq
    query_bucket, \* query_knn: query_bucket
    next_node,    \* query_knn: next_node and the position of the leaf scan
    pushes,       \* history: how often each node was pushed onto node_pq
    iters,        \* history: number of iterations of the query loop
    root_entry,   \* Rtree::root_entry
    rnodes,       \* Rtree: the Node objects alive, by address
    data,         \* Rtree::data
    ret           \* the value returned by a member function called on its own

vars == <<index, pc, point_data, nodes, leaves, res, k, query_point, node_pq,
          datum_pq, query_bucket, next_node, pushes, iters, root_entry, rnodes,
          data, ret>>

qvars == <<k, query_point, node_pq, datum_pq, query_bucket, next_node, pushes, iters>>
rvars == <<root_entry, rnodes, data, ret>>

----------------------------------------------------------------------------
(* Bounds of the model and constants of the program *)

LEAF_CAPACITY == 16
M == 8
EPS == 2
MaxDepth == 6
MaxK == 4

----------------------------------------------------------------------------
(* spatial.hpp *)

Max(a, b) == IF a >= b THEN a ELSE b
Min(a, b) == IF a <= b THEN a ELSE b

\* std::vector::erase at position i (counted from 1)
Remove(s, i) == [j \in 1..(Len(s) - 1) |-> IF j < i THEN s[j] ELSE s[j + 1]]

MinOf(S) == CHOOSE m \in S : \A n \in S : m <= n
MaxOf(S) == CHOOSE m \in S : \A n \in S : m >= n

Point(x, y) == [x |-> x, y |-> y]
Rectangle(xmin, xmax, ymin, ymax) ==
    [xmin |-> xmin, xmax |-> xmax, ymin |-> ymin, ymax |-> ymax]

midpoint(rect) ==
    Point((rect.xmin + rect.xmax) \div 2, (rect.ymin + rect.ymax) \div 2)

\* distance(Point, Point), squared
distance(p, q) ==
    LET dx == p.x - q.x
        dy == p.y - q.y
    IN  dx * dx + dy * dy

\* distance(Point, Rectangle) without the clamp at 0 of a point between the sides
distance_rect_unclamped(p, rect) ==
    LET dx == Max(rect.xmin - p.x, p.x - rect.xmax)
        dy == Max(rect.ymin - p.y, p.y - rect.ymax)
    IN  dx * dx + dy * dy

\* distance(Point, Rectangle), squared
distance_rect(p, rect) ==
    LET dx == Max(Max(rect.xmin - p.x, p.x - rect.xmax), 0)
        dy == Max(Max(rect.ymin - p.y, p.y - rect.ymax), 0)
    IN  dx * dx + dy * dy

area(rect) == (rect.xmax - rect.xmin) * (rect.ymax - rect.ymin)

\* min_bounding_box(Rectangle, Point)
min_bounding_box_pt(rect, p) ==
    Rectangle(Min(rect.xmin, p.x), Max(rect.xmax, p.x),
              Min(rect.ymin, p.y), Max(rect.ymax, p.y))

\* min_bounding_box(Rectangle, Rectangle)
min_bounding_box(r1, r2) ==
    Rectangle(Min(r1.xmin, r2.xmin), Max(r1.xmax, r2.xmax),
              Min(r1.ymin, r2.ymin), Max(r1.ymax, r2.ymax))

contains(outer, inner) ==
    /\ outer.xmin <= inner.xmin
    /\ outer.xmax >= inner.xmax
    /\ outer.ymin <= inner.ymin
    /\ outer.ymax >= inner.ymax

contains_pt(rect, p) ==
    /\ rect.xmin <= p.x
    /\ rect.xmax >= p.x
    /\ rect.ymin <= p.y
    /\ rect.ymax >= p.y

\* A record T is <<x, y, z>>; datumize pairs it with its projection.
Datum(raw_datum) == [data |-> raw_datum, point |-> Point(raw_datum[1], raw_datum[2])]

datumize(raw_data) == [i \in 1..Len(raw_data) |-> Datum(raw_data[i])]

----------------------------------------------------------------------------
(* quadtree.cpp: construction *)

\* The leaf_range of a Node that insert has not reached yet.  Range is a pair
\* of unsigned indices, so this value is none a built node can hold.
NoRange == [start |-> -1, end |-> -1]

\* Quadtree<T>::Node::Node
QNode(d, c, b) ==
    [depth |-> d, code |-> c, bounds |-> b, center |-> midpoint(b), leaf_range |-> NoRange]

\* Quadtree<T>::Quadtree: the root node, its upper bounds nudged by 0.01
Quadtree(x0, x1, y0, y1) ==
    (<<>> :> QNode(0, 0, Rectangle(x0, x1 + EPS, y0, y1 + EPS)))

\* The paths of the four children of the node at path p
child(p, i) == Append(p, i)

\* get_quadrant with the y bit shifted by two: quadrants 0, 1, 4 and 5
get_quadrant_shift_two(center, p) ==
    (IF p.x > center.x THEN 1 ELSE 0) + 4 * (IF p.y > center.y THEN 1 ELSE 0)

\* Quadtree<T>::Node::get_quadrant
get_quadrant(center, p) ==
    (IF p.x > center.x THEN 1 ELSE 0) + 2 * (IF p.y > center.y THEN 1 ELSE 0)

\* create_children with the bounds of children[1] and children[2] exchanged
child_bounds_transposed(n, i) ==
    LET b == n.bounds
        c == n.center
    IN  CASE i = 0 -> Rectangle(b.xmin, c.x, b.ymin, c.y)
          [] i = 1 -> Rectangle(b.xmin, c.x, c.y, b.ymax)
          [] i = 2 -> Rectangle(c.x, b.xmax, b.ymin, c.y)
          [] i = 3 -> Rectangle(c.x, b.xmax, c.y, b.ymax)

\* The bounds create_children gives child i (0 = SW, 1 = SE, 2 = NW, 3 = NE)
child_bounds(n, i) ==
    LET b == n.bounds
        c == n.center
    IN  CASE i = 0 -> Rectangle(b.xmin, c.x, b.ymin, c.y)
          [] i = 1 -> Rectangle(c.x, b.xmax, b.ymin, c.y)
          [] i = 2 -> Rectangle(b.xmin, c.x, c.y, b.ymax)
          [] i = 3 -> Rectangle(c.x, b.xmax, c.y, b.ymax)

\* Quadtree<T>::Node::create_children, on the node at path p of the node map ns
create_children(ns, p) ==
    ns @@ [q \in {child(p, i) : i \in 0..3} |->
              QNode(ns[p].depth + 1, ns[p].code * 4 + q[Len(q)],
                    child_bounds(ns[p], q[Len(q)]))]

\* Node::insert that takes leaf_range.end from children[2]
RECURSIVE insert_end_of_third(_, _, _, _)
insert_end_of_third(t, p, dat, fuel) ==
    IF Len(dat) <= LEAF_CAPACITY THEN
        LET leaf_idx == Len(t.leaves)
            range == [start |-> leaf_idx, end |-> leaf_idx]
        IN  [t |-> [t EXCEPT !.nodes[p].leaf_range = range,
                              !.leaves = Append(t.leaves, dat)],
             range |-> range]
    ELSE IF fuel = 0 THEN
        [t |-> [t EXCEPT !.ok = FALSE], range |-> NoRange]
    ELSE
        LET partition == [q \in 0..3 |->
                SelectSeq(dat, LAMBDA d : get_quadrant(t.nodes[p].center, d.point) = q)]
            t0 == [t EXCEPT !.nodes = create_children(t.nodes, p)]
            r0 == insert_end_of_third(t0, child(p, 0), partition[0], fuel - 1)
            t1 == [r0.t EXCEPT !.nodes[p].leaf_range.start = r0.range.start]
            r1 == insert_end_of_third(t1, child(p, 1), partition[1], fuel - 1)
            r2 == insert_end_of_third(r1.t, child(p, 2), partition[2], fuel - 1)
            r3 == insert_end_of_third(r2.t, child(p, 3), partition[3], fuel - 1)
            t4 == [r3.t EXCEPT !.nodes[p].leaf_range.end = r2.range.end]
        IN  [t |-> t4, range |-> t4.nodes[p].leaf_range]

\* Node::insert that makes a leaf of fewer than LEAF_CAPACITY data only
RECURSIVE insert_below_capacity(_, _, _, _)
insert_below_capacity(t, p, dat, fuel) ==
    IF Len(dat) < LEAF_CAPACITY THEN
        LET leaf_idx == Len(t.leaves)
            range == [start |-> leaf_idx, end |-> leaf_idx]
        IN  [t |-> [t EXCEPT !.nodes[p].leaf_range = range,
                              !.leaves = Append(t.leaves, dat)],
             range |-> range]
    ELSE IF fuel = 0 THEN
        [t |-> [t EXCEPT !.ok = FALSE], range |-> NoRange]
    ELSE
        LET partition == [q \in 0..3 |->
                SelectSeq(dat, LAMBDA d : get_quadrant(t.nodes[p].center, d.point) = q)]
            t0 == [t EXCEPT !.nodes = create_children(t.nodes, p)]
            r0 == insert_below_capacity(t0, child(p, 0), partition[0], fuel - 1)
            t1 == [r0.t EXCEPT !.nodes[p].leaf_range.start = r0.range.start]
            r1 == insert_below_capacity(t1, child(p, 1), partition[1], fuel - 1)
            r2 == insert_below_capacity(r1.t, child(p, 2), partition[2], fuel - 1)
            r3 == insert_below_capacity(r2.t, child(p, 3), partition[3], fuel - 1)
            t4 == [r3.t EXCEPT !.nodes[p].leaf_range.end = r3.range.end]
        IN  [t |-> t4, range |-> t4.nodes[p].leaf_range]

\* Quadtree<T>::Node::insert on the node at path p.  t is the tree
\* [nodes, leaves, ok]; the result is the tree and the Range returned.
\* fuel bounds the depth of the recursion: a call that would go deeper leaves
\* ok = FALSE (the recursion of the code has not returned).
RECURSIVE insert(_, _, _, _)
insert(t, p, dat, fuel) ==
    IF Len(dat) <= LEAF_CAPACITY THEN
        LET leaf_idx == Len(t.leaves)
            range == [start |-> leaf_idx, end |-> leaf_idx]
        IN  [t |-> [t EXCEPT !.nodes[p].leaf_range = range,
                              !.leaves = Append(t.leaves, dat)],
             range |-> range]
    ELSE IF fuel = 0 THEN
        [t |-> [t EXCEPT !.ok = FALSE], range |-> NoRange]
    ELSE
        LET partition == [q \in 0..3 |->
                SelectSeq(dat, LAMBDA d : get_quadrant(t.nodes[p].center, d.point) = q)]
            t0 == [t EXCEPT !.nodes = create_children(t.nodes, p)]
            r0 == insert(t0, child(p, 0), partition[0], fuel - 1)
            t1 == [r0.t EXCEPT !.nodes[p].leaf_range.start = r0.range.start]
            r1 == insert(t1, child(p, 1), partition[1], fuel - 1)
            r2 == insert(r1.t, child(p, 2), partition[2], fuel - 1)
            r3 == insert(r2.t, child(p, 3), partition[3], fuel - 1)
            t4 == [r3.t EXCEPT !.nodes[p].leaf_range.end = r3.range.end]
        IN  [t |-> t4, range |-> t4.nodes[p].leaf_range]

\* Quadtree<T>::build
build(ns, ls, raw_data) ==
    insert([nodes |-> ns, leaves |-> ls, ok |-> TRUE], <<>>, datumize(raw_data), MaxDepth).t

\* Quadtree<T>::Node::is_leaf
is_leaf(n) == n.leaf_range.start = n.leaf_range.end

\* Quadtree<T>::num_leaves
num_leaves == Len(leaves)

----------------------------------------------------------------------------
(* spatial.hpp: Z-order hashing *)

Pow2(n) == 2 ^ n
Pow4(n) == 4 ^ n

\* Conversion of a quotient of doubles to int: truncation towards zero
Trunc(num, den) ==
    LET q == (IF num >= 0 THEN num ELSE -num) \div (IF den >= 0 THEN den ELSE -den)
    IN  IF (num >= 0) = (den > 0) THEN q ELSE -q

\* grid_index: (coord - min) * dim / (max - min), converted to int
grid_index(coord, min, max, dim) == Trunc((coord - min) * dim, max - min)

\* Bitwise and / or of two naturals
RECURSIVE BitAnd(_, _)
BitAnd(a, b) ==
    IF a = 0 \/ b = 0 THEN 0
    ELSE (a % 2) * (b % 2) + 2 * BitAnd(a \div 2, b \div 2)

RECURSIVE BitOr(_, _)
BitOr(a, b) ==
    IF a = 0 THEN b
    ELSE IF b = 0 THEN a
    ELSE Max(a % 2, b % 2) + 2 * BitOr(a \div 2, b \div 2)

\* a << s.  No shift of space_bits moves a bit out of the 32 of a uint32_t
\* when i0 has 16 bits, so the shift is the product.
Shl(a, s) == a * Pow2(s)

\* _shifts and _masks
shifts == <<1, 2, 4, 8>>
masks == <<1431655765, 858993459, 252645135, 16711935>>

\* space_bits(uint16_t i0)
space_bits(i0) ==
    LET i3 == BitAnd(BitOr(i0, Shl(i0, shifts[4])), masks[4])
        i2 == BitAnd(BitOr(i3, Shl(i3, shifts[3])), masks[3])
        i1 == BitAnd(BitOr(i2, Shl(i2, shifts[2])), masks[2])
    IN  BitAnd(BitOr(i1, Shl(i1, shifts[1])), masks[1])

\* Conversion of an int argument to uint16_t
ToUint16(i) == i % Pow2(16)

\* interleave(uint16_t a, uint16_t b).  A result of 2^31 or more (b >= 2^15)
\* is beyond the integers TLC holds and is given as -1, a value no uint32_t
\* has; such a code is an index of no grid the model builds.
interleave(a, b) ==
    IF ToUint16(b) >= Pow2(15) THEN -1
    ELSE BitOr(space_bits(ToUint16(a)), Shl(space_bits(ToUint16(b)), 1))

----------------------------------------------------------------------------
(* zgrid.cpp: construction *)

\* Zgrid<T>::Node::Node
ZNode(c, d, b) == [code |-> c, depth |-> d, bounds |-> b, center |-> midpoint(b)]

\* Zgrid<T>::Zgrid
Zgrid(x0, x1, y0, y1) ==
    (<<>> :> ZNode(0, 0, Rectangle(x0, x1 + EPS, y0, y1 + EPS)))

\* Zgrid<T>::Zgrid for bounds counted in units of 2^44 with |x1| >= 8 and
\* |y1| >= 8 (2^47 or more): the doubles next to x1 are 2^-5 or more apart,
\* so that x1 + 0.01 is rounded to x1, and y1 + 0.01 to y1
Zgrid_far(x0, x1, y0, y1) ==
    (<<>> :> ZNode(0, 0, Rectangle(x0, x1, y0, y1)))

\* zorder_hash with the two cell indices interleaved the other way round
zorder_hash_swapped(b, p, r) ==
    LET cellx == grid_index(p.x, b.xmin, b.xmax, Pow2(r))
        celly == grid_index(p.y, b.ymin, b.ymax, Pow2(r))
    IN  interleave(celly, cellx)

\* Zgrid<T>::zorder_hash, b the bounds of the root
zorder_hash(b, p, r) ==
    LET cellx == grid_index(p.x, b.xmin, b.xmax, Pow2(r))
        celly == grid_index(p.y, b.ymin, b.ymax, Pow2(r))
    IN  interleave(cellx, celly)

\* Zgrid<T>::Node::create_children
zgrid_create_children(ns, p) ==
    ns @@ [q \in {child(p, i) : i \in 0..3} |->
              ZNode(ns[p].code * 4 + q[Len(q)], ns[p].depth + 1,
                    child_bounds(ns[p], q[Len(q)]))]

\* populate that creates children at r = 0 as well
RECURSIVE populate_deeper(_, _, _)
populate_deeper(ns, p, r) ==
    IF r >= 0 THEN
        LET n0 == zgrid_create_children(ns, p)
            n1 == populate_deeper(n0, child(p, 0), r - 1)
            n2 == populate_deeper(n1, child(p, 1), r - 1)
            n3 == populate_deeper(n2, child(p, 2), r - 1)
        IN  populate_deeper(n3, child(p, 3), r - 1)
    ELSE ns

\* Zgrid<T>::Node::populate on the node at path p
RECURSIVE populate(_, _, _)
populate(ns, p, r) ==
    IF r > 0 THEN
        LET n0 == zgrid_create_children(ns, p)
            n1 == populate(n0, child(p, 0), r - 1)
            n2 == populate(n1, child(p, 1), r - 1)
            n3 == populate(n2, child(p, 2), r - 1)
        IN  populate(n3, child(p, 3), r - 1)
    ELSE ns

\* The loop of zgrid_bin: grid[zorder_code].push_back(datum) for each datum.
\* A code that is no index of the grid makes the access undefined: ok = FALSE.
RECURSIVE bin(_, _, _, _, _)
bin(g, b, dat, r, i) ==
    IF i > Len(dat) THEN [grid |-> g, ok |-> TRUE]
    ELSE LET zorder_code == zorder_hash(b, dat[i].point, r)
         IN  IF zorder_code + 1 \in DOMAIN g
             THEN bin([g EXCEPT ![zorder_code + 1] = Append(@, dat[i])], b, dat, r, i + 1)
             ELSE [grid |-> g, ok |-> FALSE]

\* Zgrid<T>::zgrid_bin: the grid (resized to 4^r buckets), and the nodes
zgrid_bin(ns, g, dat, r) ==
    LET resized == [c \in 1..Pow4(r) |-> IF c \in DOMAIN g THEN g[c] ELSE <<>>]
        binned == bin(resized, ns[<<>>].bounds, dat, r, 1)
    IN  [nodes |-> populate(ns, <<>>, r), leaves |-> binned.grid, ok |-> binned.ok]

\* Zgrid<T>::build
zgrid_build(ns, g, raw_data, r) == zgrid_bin(ns, g, datumize(raw_data), r)

\* Zgrid<T>::Node::is_leaf: the node at path p has no children[0]
zgrid_is_leaf(ns, p) == child(p, 0) \notin DOMAIN ns

\* Zgrid<T>::size
size == Len(leaves)

----------------------------------------------------------------------------
(* rtree.hpp / rtree.cpp: construction.  The Node objects live in a heap h *)
(* (address -> [load, entries]); an Entry holds its _bounding_box and, as  *)
(* its _contents, a Datum (tag "datum") or the address of a Node.          *)

\* Entry(Rectangle, std::shared_ptr<Datum<T>>)
Entry_datum(rect, d) == [mbb |-> rect, tag |-> "datum", datum |-> d, node |-> 0]

\* Entry(Rectangle, std::shared_ptr<Node>)
Entry_node(rect, id) == [mbb |-> rect, tag |-> "node", datum |-> <<>>, node |-> id]

\* Entry::is_leaf_entry
is_leaf_entry(e) == e.tag = "datum"

\* Node::Node
Node == [load |-> 0, entries |-> <<>>]

\* std::make_shared<Node>(): an address no live Node has
NewNode(h) == IF DOMAIN h = {} THEN 1 ELSE MaxOf(DOMAIN h) + 1

\* Rtree<T>::Node::is_leaf
node_is_leaf(n) == Len(n.entries) = n.load

\* Rtree<T>::Node::choose_branch, the scan of entries from position pos on;
\* positions count from 1, and best_choice = 0 stands for the -1 of the code
RECURSIVE choose_branch_from(_, _, _, _, _)
choose_branch_from(entries, p, pos, min_expansion, best_choice) ==
    IF pos > Len(entries) THEN best_choice
    ELSE LET mbb == entries[pos].mbb
             current_expansion == area(min_bounding_box_pt(mbb, p)) - area(mbb)
         IN  IF best_choice = 0 \/ current_expansion < min_expansion
             THEN choose_branch_from(entries, p, pos + 1, current_expansion, pos)
             ELSE IF current_expansion = min_expansion
                     /\ area(mbb) < area(entries[best_choice].mbb)
             THEN choose_branch_from(entries, p, pos + 1, current_expansion, pos)
             ELSE choose_branch_from(entries, p, pos + 1, min_expansion, best_choice)

\* choose_branch without the tie-break: the first entry of least expansion
choose_branch_no_tie_break(entries, p) ==
    IF entries = <<>> THEN 0
    ELSE CHOOSE i \in 1..Len(entries) :
            \A j \in 1..Len(entries) :
                LET ei == area(min_bounding_box_pt(entries[i].mbb, p)) - area(entries[i].mbb)
                    ej == area(min_bounding_box_pt(entries[j].mbb, p)) - area(entries[j].mbb)
                IN  ei <= ej /\ (j < i => ei < ej)

\* Rtree<T>::Node::choose_branch
choose_branch(entries, p) == choose_branch_from(entries, p, 1, -1, 0)

\* Rtree<T>::Node::pick_seeds, the two nested loops from the pair (i, j) on:
\* the best pair <<best_e1, best_e2>>, <<0, 0>> standing for the (unsigned) -1
RECURSIVE pick_seeds_from(_, _, _, _, _)
pick_seeds_from(entry_choices, i, j, max_d, best) ==
    IF i > Len(entry_choices) THEN best
    ELSE IF j > Len(entry_choices)
    THEN pick_seeds_from(entry_choices, i + 1, i + 2, max_d, best)
    ELSE LET e1 == entry_choices[i].mbb
             e2 == entry_choices[j].mbb
             d == area(min_bounding_box(e1, e2)) - area(e1) - area(e2)
         IN  IF d > max_d
             THEN pick_seeds_from(entry_choices, i, j + 1, d, <<i, j>>)
             ELSE pick_seeds_from(entry_choices, i, j + 1, max_d, best)

pick_seeds(entry_choices) == pick_seeds_from(entry_choices, 1, 2, -1, <<0, 0>>)

Abs(a) == IF a >= 0 THEN a ELSE -a

\* Rtree<T>::Node::pick_next, g1 and g2 the bounding boxes of the two groups
RECURSIVE pick_next_from(_, _, _, _, _, _)
pick_next_from(g1, g2, leftover_entries, pos, max_diff, best_choice) ==
    IF pos > Len(leftover_entries) THEN best_choice
    ELSE LET mbb == leftover_entries[pos].mbb
             d1 == area(min_bounding_box(g1, mbb)) - area(g1)
             d2 == area(min_bounding_box(g2, mbb)) - area(g2)
         IN  IF Abs(d1 - d2) > max_diff
             THEN pick_next_from(g1, g2, leftover_entries, pos + 1, Abs(d1 - d2), pos)
             ELSE pick_next_from(g1, g2, leftover_entries, pos + 1, max_diff, best_choice)

pick_next(g1, g2, leftover_entries) == pick_next_from(g1, g2, leftover_entries, 1, 0, 1)

\* The load a group node gains when distribute gives it next_entry:
\* g.get_node()->load++
distribute_load(next_entry) == 1

\* distribute: whether next_entry goes to group g1 (else to g2): the group
\* whose box grows least and, on a tie, g1 if its box is the smaller
distribute_to_g1(g1, g2, next_entry) ==
    LET g1_expansion == area(min_bounding_box(g1.mbb, next_entry.mbb)) - area(g1.mbb)
        g2_expansion == area(min_bounding_box(g2.mbb, next_entry.mbb)) - area(g2.mbb)
    IN  \/ g1_expansion < g2_expansion
        \/ /\ g1_expansion = g2_expansion
           /\ area(g1.mbb) < area(g2.mbb)

\* distribute that pushes next_entry onto the nodes of both groups
distribute_give_both(h, id, ov, next_idx, gi) ==
    [h EXCEPT ![ov].entries = Remove(@, next_idx),
              ![id].entries[gi].mbb = min_bounding_box(@, h[ov].entries[next_idx].mbb),
              ![h[id].entries[Len(h[id].entries)].node].entries =
                  Append(@, h[ov].entries[next_idx]),
              ![h[id].entries[Len(h[id].entries) - 1].node].entries =
                  Append(@, h[ov].entries[next_idx]),
              ![h[id].entries[gi].node].load = @ + distribute_load(h[ov].entries[next_idx])]

\* distribute: entry next_idx of the overflowing node ov is erased from it and
\* pushed onto the node of entry gi of the node id, whose box and load grow
distribute_give(h, id, ov, next_idx, gi) ==
    [h EXCEPT ![ov].entries = Remove(@, next_idx),
              ![id].entries[gi].mbb = min_bounding_box(@, h[ov].entries[next_idx].mbb),
              ![h[id].entries[gi].node].entries = Append(@, h[ov].entries[next_idx]),
              ![h[id].entries[gi].node].load = @ + distribute_load(h[ov].entries[next_idx])]

\* distribute: one turn of the while loop; g1 is the last entry (position i1)
\* of the node id, g2 the one before it
distribute_turn(h, id, ov, i1, next_idx) ==
    distribute_give(h, id, ov, next_idx,
        IF distribute_to_g1(h[id].entries[i1], h[id].entries[i1 - 1],
                            h[ov].entries[next_idx])
        THEN i1 ELSE i1 - 1)

\* Rtree<T>::Node::distribute on the node at address id: the entries of the
\* overflowing node ov are moved, one a turn, to the group nodes of the last
\* two entries of id
RECURSIVE distribute(_, _, _)
distribute(h, id, ov) ==
    IF h[ov].entries = <<>> THEN h
    ELSE distribute(
            distribute_turn(h, id, ov, Len(h[id].entries),
                pick_next(h[id].entries[Len(h[id].entries)].mbb,
                          h[id].entries[Len(h[id].entries) - 1].mbb,
                          h[ov].entries)),
            id, ov)

\* pick_seeds: the two entries pushed onto the node id, each with a new Node
split_seed(h, id, mbb1, mbb2, n1) ==
    [h EXCEPT ![id].entries = Append(Append(@, Entry_node(mbb1, n1)),
                                     Entry_node(mbb2, n1 + 1))]
    @@ (n1 :> Node) @@ ((n1 + 1) :> Node)

\* The heap without the node at address ov, whose last reference is gone
Release(h, ov) == [a \in DOMAIN h \ {ov} |-> h[a]]

\* split, from pick_seeds on; best is the pair pick_seeds chose.  With no
\* pair chosen, pick_seeds indexes entry_choices with -1: st = "undefined".
split_groups(h, id, ov, best) ==
    IF best = <<0, 0>>
    THEN [h |-> h, st |-> "undefined"]
    ELSE [h |-> Release(
                  distribute(
                     split_seed(h, id, h[ov].entries[best[1]].mbb,
                                h[ov].entries[best[2]].mbb, NewNode(h)),
                     id, ov),
                  ov),
          st |-> "ok"]

\* split, after the erase of the overflowing entry
split_erased(h, id, ov) == split_groups(h, id, ov, pick_seeds(h[ov].entries))

\* Rtree<T>::Node::split on the node at address id: the heap and st
split(h, id, branch_idx) ==
    split_erased([h EXCEPT ![id].entries = Remove(@, branch_idx)], id,
                 h[id].entries[branch_idx].node)

\* What child_entry.set_mbb(...) in Node::insert leaves in entries[branch_idx]:
\* child_entry is a copy of the entry, so the stored box is as before
insert_set_mbb(mbb, p) == mbb

\* Node::insert: load++ and the return of entries.size() > M
insert_return(id, r) ==
    IF r.st # "ok"
    THEN [h |-> r.h, overflow |-> FALSE, st |-> r.st]
    ELSE [h |-> [r.h EXCEPT ![id].load = @ + 1],
          overflow |-> Len(r.h[id].entries) > M,
          st |-> "ok"]

\* Node::insert, after the recursion on the child node returned rec
insert_after(id, branch_idx, rec) ==
    IF rec.st = "ok" /\ rec.overflow
    THEN insert_return(id, split(rec.h, id, branch_idx))
    ELSE insert_return(id, [h |-> rec.h, st |-> rec.st])

\* Rtree<T>::Node::insert on the node at address id.  The result is the heap,
\* the value returned (overflow) and st: "ok", "undefined", or
\* "bad_variant_access" when get_node() is asked of an entry that holds a
\* Datum and throws.
RECURSIVE node_insert(_, _, _)

\* Node::insert on an internal node, branch_idx the choice of choose_branch
insert_descend(h, id, datum, branch_idx) ==
    IF branch_idx = 0
    THEN [h |-> h, overflow |-> FALSE, st |-> "undefined"]
    ELSE IF is_leaf_entry(h[id].entries[branch_idx])
    THEN [h |-> h, overflow |-> FALSE, st |-> "bad_variant_access"]
    ELSE insert_after(id, branch_idx,
            node_insert([h EXCEPT ![id].entries[branch_idx].mbb =
                                      insert_set_mbb(@, datum.point)],
                        h[id].entries[branch_idx].node, datum))

\* Node::insert on a leaf node: the point is pushed as a new entry
insert_leaf(h, id, datum, p) ==
    insert_return(id,
        [h |-> [h EXCEPT ![id].entries =
                   Append(@, Entry_datum(Rectangle(p.x, p.x, p.y, p.y), datum))],
         st |-> "ok"])

node_insert(h, id, datum) ==
    IF node_is_leaf(h[id])
    THEN insert_leaf(h, id, datum, datum.point)
    ELSE insert_descend(h, id, datum, choose_branch(h[id].entries, datum.point))

\* split_root that leaves the load of the new root node at 0
split_root_at_zero_load(h, root, new) ==
    [root |-> [mbb |-> root.mbb, node |-> new],
     halves |-> split(h @@ (new :> [load |-> 0,
                                    entries |-> <<Entry_node(root.mbb, root.node)>>]),
                      new, 1)]

\* split_root, from the swap on: new is the address of the new root node
split_root_at(h, root, new) ==
    [root |-> [mbb |-> root.mbb, node |-> new],
     halves |-> split(h @@ (new :> [load |-> h[root.node].load,
                                    entries |-> <<Entry_node(root.mbb, root.node)>>]),
                      new, 1)]

\* Rtree<T>::split_root: the new root entry, the heap and st
split_root(h, root) ==
    LET r == split_root_at(h, root, NewNode(h))
    IN  [root |-> r.root, h |-> r.halves.h, st |-> r.halves.st]

\* insert, after root_entry->get_node()->insert(...) returned rec
rtree_insert_after(root, rec) ==
    IF rec.st = "ok" /\ rec.overflow
    THEN split_root(rec.h, root)
    ELSE [root |-> root, h |-> rec.h, st |-> rec.st]

\* Rtree<T>::insert: the root entry, the heap and st
rtree_insert(root, h, new_datum) ==
    rtree_insert_after(
        [root EXCEPT !.mbb = min_bounding_box_pt(@, new_datum.point)],
        node_insert(h, root.node, new_datum))

\* Rtree<T>::get_load
get_load == rnodes[root_entry.node].load

----------------------------------------------------------------------------
(* quadtree.hpp / zgrid.hpp: NodePQ and DatumPQ.                           *)
(* A std::priority_queue is modelled by the sequence of its elements in    *)
(* push order; top() is an element the comparator ranks first, and which   *)
(* one among elements of equal dist is left open.                          *)

Dists(pq) == {pq[i].dist : i \in 1..Len(pq)}

\* NodePQ::push
NodePQ_push(pq, origin, n) ==
    Append(pq, [node |-> n, dist |-> distance_rect(origin, nodes[n].bounds)])

\* NodePQ::peek().dist: the least dist (comparator Closer)
NodePQ_peek(pq) == MinOf(Dists(pq))

\* The positions top() may denote
NodePQ_top(pq) == {i \in 1..Len(pq) : pq[i].dist = NodePQ_peek(pq)}

\* NodePQ::expand that pushes children[2] a second time in place of children[3]
NodePQ_expand_twice(pq, origin, n) ==
    NodePQ_push(NodePQ_push(NodePQ_push(NodePQ_push(pq,
        origin, child(n, 0)), origin, child(n, 1)), origin, child(n, 2)), origin, child(n, 2))

\* NodePQ::expand: push the four children of n
NodePQ_expand(pq, origin, n) ==
    NodePQ_push(NodePQ_push(NodePQ_push(NodePQ_push(pq,
        origin, child(n, 0)), origin, child(n, 1)), origin, child(n, 2)), origin, child(n, 3))

\* DatumPQ::push
DatumPQ_push(pq, origin, d) ==
    Append(pq, [datum |-> d, dist |-> distance(origin, d.point)])

\* DatumPQ::peek().dist: the greatest dist (comparator Farther)
DatumPQ_peek(pq) == MaxOf(Dists(pq))

\* top() of a DatumPQ ordered by the comparator of NodePQ (closest first)
DatumPQ_top_closest(pq) == {i \in 1..Len(pq) : pq[i].dist = MinOf(Dists(pq))}

\* The positions top() may denote
DatumPQ_top(pq) == {i \in 1..Len(pq) : pq[i].dist = DatumPQ_peek(pq)}

\* DatumPQ::choose that pushes the closer datum and pops nothing
DatumPQ_choose_nopop(pq, origin, d, i) ==
    LET new_dist == distance(origin, d.point)
    IN  IF DatumPQ_peek(pq) > new_dist
        THEN Append(pq, [datum |-> d, dist |-> new_dist])
        ELSE pq

\* DatumPQ::choose, i the position pop() removes
DatumPQ_choose(pq, origin, d, i) ==
    LET new_dist == distance(origin, d.point)
    IN  IF DatumPQ_peek(pq) > new_dist
        THEN Append(Remove(pq, i), [datum |-> d, dist |-> new_dist])
        ELSE pq

----------------------------------------------------------------------------
(* Inputs *)

MaxRecords == 20

\* Constructor arguments (x0, x1, y0, y1): the domain of the layouts, and
\* one with x0 > x1
Domains == {<<0, 14, 0, 14>>, <<16, -2, 0, 14>>}

\* Point sets, as sequences of (x, y); record i of a layout is <<x, y, i>>.
Spread ==
    << <<0, 0>>, <<14, 14>>, <<8, 8>>, <<2, 12>>, <<12, 2>>, <<6, 6>>,
       <<10, 10>>, <<4, 8>>, <<8, 4>>, <<0, 14>>, <<14, 0>>, <<2, 2>>,
       <<12, 12>>, <<6, 10>>, <<10, 6>>, <<4, 4>>, <<2, 6>>, <<6, 2>>,
       <<10, 14>>, <<14, 10>>, <<0, 8>>, <<8, 0>>, <<4, 12>>, <<12, 4>> >>

Clustered ==
    << <<0, 0>>, <<2, 0>>, <<0, 2>>, <<2, 2>>, <<4, 0>>, <<0, 4>>,
       <<4, 4>>, <<2, 4>>, <<4, 2>>, <<0, 0>>, <<2, 2>>, <<4, 4>>,
       <<2, 0>>, <<0, 2>>, <<4, 2>>, <<2, 4>>, <<4, 0>>, <<0, 4>>,
       <<14, 14>>, <<6, 6>>, <<8, 2>>, <<2, 8>>, <<12, 12>>, <<6, 0>> >>

Coincident ==
    [i \in 1..24 |-> IF i <= 9 THEN <<6, 10>> ELSE IF i <= 18 THEN <<4, 10>> ELSE <<10, 2>>]

Stacked == [i \in 1..24 |-> <<10, 6>>]

\* Points of the domain among points strictly outside it
Outlying == << <<4, 4>>, <<-2, 4>>, <<10, 12>>, <<20, 6>>, <<6, 30>> >>

\* Five points in each of the four equal cells of [0, 14] x [0, 14], those
\* of three cells at 8, between the middle of the domain and the centre of
\* the root
Gridded ==
    << <<2, 2>>, <<8, 0>>, <<0, 8>>, <<8, 8>>, <<4, 2>>, <<8, 2>>,
       <<2, 8>>, <<8, 8>>, <<2, 4>>, <<8, 4>>, <<4, 8>>, <<12, 12>>,
       <<6, 4>>, <<8, 6>>, <<6, 8>>, <<10, 10>>, <<4, 6>>, <<8, 3>>,
       <<3, 8>>, <<14, 14>> >>

\* Five points in each of the four children of the root
Aligned ==
    << <<2, 2>>, <<10, 2>>, <<2, 10>>, <<10, 10>>, <<8, 8>>, <<12, 6>>,
       <<8, 12>>, <<12, 14>>, <<8, 4>>, <<14, 8>>, <<4, 14>>, <<14, 12>>,
       <<4, 8>>, <<10, 8>>, <<6, 10>>, <<10, 12>>, <<6, 6>>, <<12, 0>>,
       <<0, 12>>, <<12, 10>> >>

Layouts == {Spread, Clustered, Coincident, Stacked, Outlying, Gridded, Aligned}

Sizes == {0, 1, 3, 5, LEAF_CAPACITY, LEAF_CAPACITY + 1, MaxRecords}

Records(layout, n) ==
    [i \in 1..Min(n, Len(layout)) |-> <<layout[i][1], layout[i][2], i>>]

Resolutions == {0, 1, 2}

Ks == {0, 1, 3, MaxK}

QueryPoints == {Point(3, 5), Point(8, 5), Point(15, 15), Point(7, 40), Point(-6, -2)}

----------------------------------------------------------------------------
(* The caller: construction and build *)

NoNode == <<-1>>
NoEntry == [mbb |-> Rectangle(0, 0, 0, 0), node |-> 0]

QueryIdle ==
    /\ k = 0
    /\ query_point = Point(0, 0)
    /\ node_pq = <<>>
    /\ datum_pq = <<>>
    /\ query_bucket = <<>>
    /\ next_node = [node |-> NoNode, pos |-> 0]
    /\ pushes = <<>>
    /\ iters = 0

NoRtree ==
    /\ root_entry = NoEntry
    /\ rnodes = <<>>
    /\ data = <<>>
    /\ ret = <<>>

\* After Quadtree<T>::Quadtree or Zgrid<T>::Zgrid
Init ==
    /\ index \in {"Quadtree", "Zgrid"}
    /\ pc = "constructed"
    /\ point_data = <<>>
    /\ \E b \in Domains :
          nodes = IF index = "Quadtree" THEN Quadtree(b[1], b[2], b[3], b[4])
                                        ELSE Zgrid(b[1], b[2], b[3], b[4])
    /\ leaves = <<>>
    /\ res = 0
    /\ QueryIdle
    /\ NoRtree

\* qt.build(point_data)
QuadtreeBuild ==
    /\ index = "Quadtree"
    /\ pc = "constructed"
    /\ \E layout \in Layouts, n \in Sizes :
          LET raw_data == Records(layout, n)
              t == build(nodes, leaves, raw_data)
          IN  /\ point_data' = raw_data
              /\ IF t.ok
                 THEN /\ nodes' = t.nodes
                      /\ leaves' = t.leaves
                      /\ pc' = "built"
                 ELSE /\ UNCHANGED <<nodes, leaves>>
                      /\ pc' = "diverged"
    /\ UNCHANGED <<index, res>>
    /\ UNCHANGED qvars
    /\ UNCHANGED rvars

\* zgrid.build(point_data, r)
ZgridBuild ==
    /\ index = "Zgrid"
    /\ pc = "constructed"
    /\ \E layout \in Layouts, n \in Sizes, r \in Resolutions :
          LET raw_data == Records(layout, n)
              t == zgrid_build(nodes, leaves, raw_data, r)
          IN  /\ point_data' = raw_data
              /\ res' = r
              /\ nodes' = t.nodes
              /\ leaves' = t.leaves
              /\ pc' = IF t.ok THEN "built" ELSE "undefined"
    /\ UNCHANGED index
    /\ UNCHANGED qvars
    /\ UNCHANGED rvars

----------------------------------------------------------------------------
(* Quadtree<T>::query_knn and Zgrid<T>::query_knn.  The two functions are  *)
(* the same text but for the test of a leaf and the bucket a leaf names.   *)

\* next_node->is_leaf()
NodeIsLeaf(n) ==
    IF index = "Quadtree" THEN is_leaf(nodes[n]) ELSE zgrid_is_leaf(nodes, n)

\* leaves[next_node->leaf_range.start]
QuadtreeBucket(n) == leaves[nodes[n].leaf_range.start + 1]

\* grid[next_node->code]
ZgridBucket(n) == leaves[nodes[n].code + 1]

Bucket(n) == IF index = "Quadtree" THEN QuadtreeBucket(n) ELSE ZgridBucket(n)

\* History: the push counts ps after the elements of pq beyond position from
\* were pushed
Pushed(ps, pq, from) ==
    [c \in DOMAIN ps \cup {pq[i].node : i \in (from + 1)..Len(pq)} |->
        (IF c \in DOMAIN ps THEN ps[c] ELSE 0)
        + Cardinality({i \in (from + 1)..Len(pq) : pq[i].node = c})]

\* The condition of the while loop, for k >= 1
LoopCond ==
    /\ node_pq # <<>>
    /\ IF Len(datum_pq) < k THEN TRUE
       ELSE DatumPQ_peek(datum_pq) > NodePQ_peek(node_pq)

\* query_knn(k, x, y) is called: the queues are set up
QueryKnn ==
    /\ index \in {"Quadtree", "Zgrid"}
    /\ pc = "built"
    /\ \E kk \in Ks, q \in QueryPoints :
          /\ k' = kk
          /\ query_point' = q
          /\ node_pq' = NodePQ_push(<<>>, q, <<>>)
    /\ datum_pq' = <<>>
    /\ query_bucket' = <<>>
    /\ pushes' = (<<>> :> 1)
    /\ iters' = 0
    /\ pc' = "loop"
    /\ UNCHANGED <<index, point_data, nodes, leaves, res, next_node>>
    /\ UNCHANGED rvars

\* With k = 0 and a node queued, datum_pq.size() < k is false and the
\* condition reads peek() of the empty datum_pq: top() of an empty
\* std::priority_queue, which is undefined.
QueryPeekEmpty ==
    /\ pc = "loop"
    /\ index \in {"Quadtree", "Zgrid"}
    /\ node_pq # <<>>
    /\ Len(datum_pq) >= k
    /\ datum_pq = <<>>
    /\ pc' = "undefined"
    /\ UNCHANGED <<index, point_data, nodes, leaves, res>>
    /\ UNCHANGED qvars
    /\ UNCHANGED rvars

\* One iteration of the while loop, up to the leaf scan: pop the closest
\* node, expand it if it is no leaf
QueryPop ==
    /\ pc = "loop"
    /\ index \in {"Quadtree", "Zgrid"}
    /\ ~(Len(datum_pq) >= k /\ datum_pq = <<>> /\ node_pq # <<>>)
    /\ LoopCond
    /\ \E i \in NodePQ_top(node_pq) :
          LET n == node_pq[i].node
              popped == Remove(node_pq, i)
          IN  IF NodeIsLeaf(n)
              THEN /\ node_pq' = popped
                   /\ next_node' = [node |-> n, pos |-> 1]
                   /\ pc' = "scan"
                   /\ UNCHANGED pushes
              ELSE /\ node_pq' = NodePQ_expand(popped, query_point, n)
                   /\ pushes' = Pushed(pushes, NodePQ_expand(popped, query_point, n),
                                       Len(popped))
                   /\ pc' = "loop"
                   /\ UNCHANGED next_node
    /\ iters' = iters + 1
    /\ UNCHANGED <<index, point_data, nodes, leaves, res, k, query_point, datum_pq,
                   query_bucket>>
    /\ UNCHANGED rvars

\* The for loop over the bucket of a leaf: one datum is offered to datum_pq
QueryScan ==
    /\ pc = "scan"
    /\ index \in {"Quadtree", "Zgrid"}
    /\ LET bucket == Bucket(next_node.node)
       IN  IF next_node.pos > Len(bucket)
           THEN /\ pc' = "loop"
                /\ next_node' = [node |-> NoNode, pos |-> 0]
                /\ UNCHANGED datum_pq
           ELSE /\ pc' = "scan"
                /\ next_node' = [next_node EXCEPT !.pos = @ + 1]
                /\ IF Len(datum_pq) < k
                   THEN datum_pq' = DatumPQ_push(datum_pq, query_point, bucket[next_node.pos])
                   ELSE \E i \in DatumPQ_top(datum_pq) :
                           datum_pq' = DatumPQ_choose(datum_pq, query_point,
                                                      bucket[next_node.pos], i)
    /\ UNCHANGED <<index, point_data, nodes, leaves, res, k, query_point, node_pq,
                   query_bucket, pushes, iters>>
    /\ UNCHANGED rvars

\* The while loop ends
QueryExit ==
    /\ pc = "loop"
    /\ index \in {"Quadtree", "Zgrid"}
    /\ ~(Len(datum_pq) >= k /\ datum_pq = <<>> /\ node_pq # <<>>)
    /\ ~LoopCond
    /\ pc' = "drain"
    /\ UNCHANGED <<index, point_data, nodes, leaves, res>>
    /\ UNCHANGED qvars
    /\ UNCHANGED rvars

\* The drain of datum_pq into query_bucket, one pop at a time, and the return
QueryDrain ==
    /\ pc = "drain"
    /\ index \in {"Quadtree", "Zgrid"}
    /\ IF datum_pq = <<>>
       THEN /\ pc' = "done"
            /\ UNCHANGED <<datum_pq, query_bucket>>
       ELSE /\ \E i \in DatumPQ_top(datum_pq) :
                  /\ query_bucket' = Append(query_bucket, datum_pq[i].datum.data)
                  /\ datum_pq' = Remove(datum_pq, i)
            /\ pc' = "drain"
    /\ UNCHANGED <<index, point_data, nodes, leaves, res, k, query_point, node_pq,
                   next_node, pushes, iters>>
    /\ UNCHANGED rvars

Next ==
    \/ QuadtreeBuild
    \/ ZgridBuild
    \/ QueryKnn
    \/ QueryPeekEmpty
    \/ QueryPop
    \/ QueryScan
    \/ QueryExit
    \/ QueryDrain

Spec == Init /\ [][Next]_vars

----------------------------------------------------------------------------
(* The R-tree: construction, build, insert *)

MaxInserts == 25

\* Points that crowd into few groups: the root node reaches M + 1 entries,
\* all of them holding nodes, at the 24th insert
Crowded ==
    << <<14, 0>>, <<10, 2>>, <<6, 2>>, <<4, 2>>, <<8, 6>>, <<6, 8>>,
       <<2, 4>>, <<8, 2>>, <<0, 14>>, <<14, 6>>, <<10, 2>>, <<6, 2>>,
       <<4, 2>>, <<10, 2>>, <<8, 2>>, <<10, 2>>, <<14, 4>>, <<14, 4>>,
       <<14, 8>>, <<14, 6>>, <<14, 8>>, <<14, 10>>, <<14, 6>>, <<14, 0>>,
       <<0, 0>>, <<8, 8>> >>

Collinear == [i \in 1..24 |-> <<2 * ((3 * i) % 8), 4>>]

RLayouts == {Spread, Crowded, Collinear}

RSizes == {0, 5, M + 1, M + 4, MaxInserts}

RKs == {1, 2}

RQueryPoints == {Point(3, 5), Point(15, 15), Point(7, 40)}

\* After Rtree<T>::Rtree
RInit ==
    /\ index = "Rtree"
    /\ pc = "constructed"
    /\ point_data = <<>>
    /\ nodes = <<>>
    /\ leaves = <<>>
    /\ res = 0
    /\ QueryIdle
    /\ root_entry = [mbb |-> Rectangle(0, 0, 0, 0), node |-> 1]
    /\ rnodes = (1 :> Node)
    /\ data = <<>>
    /\ ret = <<>>

\* Rtree<T>::build, up to the loop of inserts.  raw_data[0] of an empty
\* vector is undefined.
RtreeBuild ==
    /\ index = "Rtree"
    /\ pc = "constructed"
    /\ \E layout \in RLayouts, n \in RSizes :
          LET raw_data == Records(layout, n)
          IN  /\ point_data' = raw_data
              /\ IF raw_data = <<>>
                 THEN /\ pc' = "undefined"
                      /\ UNCHANGED root_entry
                 ELSE /\ pc' = "build"
                      /\ root_entry' = [root_entry EXCEPT !.mbb =
                            Rectangle(raw_data[1][1], raw_data[1][1],
                                      raw_data[1][2], raw_data[1][2])]
    /\ UNCHANGED <<index, nodes, leaves, res, rnodes, data, ret>>
    /\ UNCHANGED qvars

\* One turn of the loop of build: insert(new_datum)
RtreeInsert ==
    /\ index = "Rtree"
    /\ pc = "build"
    /\ Len(data) < Len(point_data)
    /\ LET new_datum == Datum(point_data[Len(data) + 1])
           r == rtree_insert(root_entry, rnodes, new_datum)
       IN  /\ root_entry' = r.root
           /\ rnodes' = r.h
           /\ data' = Append(data, new_datum)
           /\ pc' = IF r.st = "undefined" THEN "undefined"
                    ELSE IF r.st = "bad_variant_access" THEN "terminated"
                    ELSE IF Len(data) + 1 = Len(point_data) THEN "built"
                    ELSE "build"
    /\ UNCHANGED <<index, point_data, nodes, leaves, res, ret>>
    /\ UNCHANGED qvars

----------------------------------------------------------------------------
(* rtree.hpp: EntryPQ (the DatumPQ of rtree.hpp is that of quadtree.hpp) *)

\* EntryPQ::push
EntryPQ_push(pq, origin, e) ==
    Append(pq, [entry |-> e, dist |-> distance_rect(origin, e.mbb)])

\* EntryPQ::expand: push the entries of the node of e, from position i on
RECURSIVE EntryPQ_expand_from(_, _, _, _)
EntryPQ_expand_from(pq, origin, entries, i) ==
    IF i > Len(entries) THEN pq
    ELSE EntryPQ_expand_from(EntryPQ_push(pq, origin, entries[i]), origin, entries, i + 1)

EntryPQ_expand(pq, origin, e) == EntryPQ_expand_from(pq, origin, rnodes[e.node].entries, 1)

----------------------------------------------------------------------------
(* Rtree<T>::query_knn: best-first distance browsing over the entries.     *)
(* The root entry is queued; an entry popped is expanded when it holds a   *)
(* node and offered to datum_pq when it holds a datum.                     *)

RtreeQueryKnn ==
    /\ index = "Rtree"
    /\ pc = "built"
    /\ \E kk \in RKs, q \in RQueryPoints :
          /\ k' = kk
          /\ query_point' = q
          /\ node_pq' = EntryPQ_push(<<>>, q, Entry_node(root_entry.mbb, root_entry.node))
    /\ datum_pq' = <<>>
    /\ query_bucket' = <<>>
    /\ iters' = 0
    /\ pc' = "loop"
    /\ UNCHANGED <<index, point_data, nodes, leaves, res, next_node, pushes>>
    /\ UNCHANGED rvars

RtreeQueryPop ==
    /\ index = "Rtree"
    /\ pc = "loop"
    /\ LoopCond
    /\ \E i \in NodePQ_top(node_pq) :
          LET e == node_pq[i].entry
              popped == Remove(node_pq, i)
          IN  IF is_leaf_entry(e)
              THEN /\ node_pq' = popped
                   /\ IF Len(datum_pq) < k
                      THEN datum_pq' = DatumPQ_push(datum_pq, query_point, e.datum)
                      ELSE \E j \in DatumPQ_top(datum_pq) :
                              datum_pq' = DatumPQ_choose(datum_pq, query_point, e.datum, j)
              ELSE /\ node_pq' = EntryPQ_expand(popped, query_point, e)
                   /\ UNCHANGED datum_pq
    /\ iters' = iters + 1
    /\ UNCHANGED <<index, pc, point_data, nodes, leaves, res, k, query_point,
                   query_bucket, next_node, pushes>>
    /\ UNCHANGED rvars

RtreeQueryExit ==
    /\ index = "Rtree"
    /\ pc = "loop"
    /\ ~LoopCond
    /\ pc' = "drain"
    /\ UNCHANGED <<index, point_data, nodes, leaves, res>>
    /\ UNCHANGED qvars
    /\ UNCHANGED rvars

RtreeQueryDrain ==
    /\ index = "Rtree"
    /\ pc = "drain"
    /\ IF datum_pq = <<>>
       THEN /\ pc' = "done"
            /\ UNCHANGED <<datum_pq, query_bucket>>
       ELSE /\ \E i \in DatumPQ_top(datum_pq) :
                  /\ query_bucket' = Append(query_bucket, datum_pq[i].datum.data)
                  /\ datum_pq' = Remove(datum_pq, i)
            /\ pc' = "drain"
    /\ UNCHANGED <<index, point_data, nodes, leaves, res, k, query_point, node_pq,
                   next_node, pushes, iters>>
    /\ UNCHANGED rvars

RNext ==
    \/ RtreeBuild
    \/ RtreeInsert
    \/ RtreeQueryKnn
    \/ RtreeQueryPop
    \/ RtreeQueryExit
    \/ RtreeQueryDrain

RSpec == RInit /\ [][RNext]_vars

----------------------------------------------------------------------------
(* Member functions called on their own: Node::choose_branch and           *)
(* Node::pick_seeds on a Node of given entries, Zgrid::zorder_hash on a     *)
(* Zgrid of given bounds.  The R-tree has no nudge and no constant of      *)
(* length: its coordinates count whole units, so that the -1 of max_d and  *)
(* min_expansion is the -1 of the code.                                    *)

\* Bounding boxes of entries: two points and four squares, some overlapping
FRects ==
    {Rectangle(0, 0, 0, 0), Rectangle(4, 4, 2, 2), Rectangle(0, 4, 0, 4),
     Rectangle(2, 6, 2, 6), Rectangle(1, 5, 1, 5), Rectangle(0, 8, 0, 8)}

\* An entry of bounding box rect: of a Datum if rect is a point, else of a
\* Node (the functions called read no more of an entry than its box)
FEntry(rect) ==
    IF rect.xmin = rect.xmax /\ rect.ymin = rect.ymax
    THEN Entry_datum(rect, Datum(<<rect.xmin, rect.ymin, 0>>))
    ELSE Entry_node(rect, 0)

\* The sequences over S of lengths lo .. hi
SeqsOf(S, lo, hi) == UNION {[1..n -> S] : n \in lo..hi}

\* Lists of one to three entries, and pools of M + 1: collinear points,
\* coincident points, one square nine times
FEntryLists ==
    {[i \in DOMAIN rs |-> FEntry(rs[i])] : rs \in SeqsOf(FRects, 1, 3)}
    \cup {[i \in 1..(M + 1) |-> FEntry(Rectangle(Collinear[i][1], Collinear[i][1],
                                                 Collinear[i][2], Collinear[i][2]))],
          [i \in 1..(M + 1) |-> FEntry(Rectangle(4, 4, 2, 2))],
          [i \in 1..(M + 1) |-> FEntry(Rectangle(0, 4, 0, 4))]}

FPoints == {Point(0, 0), Point(3, 3), Point(5, 5), Point(9, 1)}

\* Bounds of a Zgrid with x0 <= x1 and y0 <= y1, one with x0 = x1
FDomains == {<<0, 14, 0, 14>>, <<-6, 7, -2, 9>>, <<4, 4, 0, 30>>}

\* Resolutions, the highest the 16 of the widest cell index
FResolutions == {0, 1, 2, 3, 7, 15, 16}

\* Domains of bounds counted in units of 2^44 (see Zgrid_far)
FFarDomains == {<<0, 8, 0, 8>>, <<-16, 16, 8, 24>>}

\* The points of the domain b with each coordinate at the minimum, next to
\* it, in the middle, next to the maximum or at the maximum
FEdge(lo, hi) == {lo, Min(lo + 1, hi), (lo + hi) \div 2, Max(hi - 1, lo), hi}
FDomainPoints(b) == {Point(x, y) : x \in FEdge(b[1], b[2]), y \in FEdge(b[3], b[4])}

FIdle ==
    /\ point_data = <<>>
    /\ leaves = <<>>
    /\ k = 0
    /\ node_pq = <<>>
    /\ datum_pq = <<>>
    /\ query_bucket = <<>>
    /\ next_node = [node |-> NoNode, pos |-> 0]
    /\ pushes = <<>>
    /\ iters = 0
    /\ root_entry = NoEntry
    /\ data = <<>>
    /\ ret = <<>>

\* A Node of given entries and a point; a Node and the overflowing node
\* erased from it; a Zgrid of given bounds, a resolution and a point
FInit ==
    /\ FIdle
    /\ \/ /\ index = "Node"
          /\ pc = "choose_branch"
          /\ \E es \in FEntryLists : rnodes = (1 :> [load |-> 0, entries |-> es])
          /\ query_point \in FPoints
          /\ nodes = <<>>
          /\ res = 0
       \/ /\ index = "Node"
          /\ pc = "pick_seeds"
          /\ \E es \in FEntryLists, pe \in SeqsOf({FEntry(Rectangle(0, 8, 0, 8))}, 0, 1) :
                /\ Len(es) >= 2
                /\ rnodes = (1 :> [load |-> 0, entries |-> pe])
                             @@ (2 :> [load |-> 0, entries |-> es])
          /\ query_point = Point(0, 0)
          /\ nodes = <<>>
          /\ res = 0
       \/ /\ index = "Zgrid"
          /\ pc = "zorder_hash"
          /\ \/ \E b \in FDomains :
                   /\ nodes = Zgrid(b[1], b[2], b[3], b[4])
                   /\ query_point \in FDomainPoints(b)
             \/ \E b \in FFarDomains :
                   /\ nodes = Zgrid_far(b[1], b[2], b[3], b[4])
                   /\ query_point \in FDomainPoints(b)
          /\ res \in FResolutions
          /\ rnodes = <<>>

\* this->choose_branch(p) on the node at address 1
FChooseBranch ==
    /\ pc = "choose_branch"
    /\ ret' = choose_branch(rnodes[1].entries, query_point)
    /\ pc' = "chosen"
    /\ UNCHANGED <<index, point_data, nodes, leaves, res, root_entry, rnodes, data>>
    /\ UNCHANGED qvars

\* this->pick_seeds(overflowing_node->entries) on the node at address 1,
\* the overflowing node at address 2.  With no pair chosen, entry_choices is
\* indexed with (unsigned) -1.
FPickSeeds ==
    /\ pc = "pick_seeds"
    /\ LET best == pick_seeds(rnodes[2].entries)
       IN  IF best = <<0, 0>>
           THEN /\ pc' = "undefined"
                /\ UNCHANGED <<rnodes, ret>>
           ELSE /\ pc' = "seeded"
                /\ ret' = best
                /\ rnodes' = split_seed(rnodes, 1, rnodes[2].entries[best[1]].mbb,
                                        rnodes[2].entries[best[2]].mbb, NewNode(rnodes))
    /\ UNCHANGED <<index, point_data, nodes, leaves, res, root_entry, data>>
    /\ UNCHANGED qvars

\* zorder_hash(p, r): the two cell indices and the code
FZorderHash ==
    /\ pc = "zorder_hash"
    /\ LET b == nodes[<<>>].bounds
       IN  ret' = <<grid_index(query_point.x, b.xmin, b.xmax, Pow2(res)),
                   grid_index(query_point.y, b.ymin, b.ymax, Pow2(res)),
                   zorder_hash(b, query_point, res)>>
    /\ pc' = "hashed"
    /\ UNCHANGED <<index, point_data, nodes, leaves, res, root_entry, rnodes, data>>
    /\ UNCHANGED qvars

FNext ==
    \/ FChooseBranch
    \/ FPickSeeds
    \/ FZorderHash

FSpec == FInit /\ [][FNext]_vars

----------------------------------------------------------------------------
(* Properties of query_knn on the Quadtree and the Zgrid *)

\* The records query_knn returned
Returned == {query_bucket[j] : j \in 1..Len(query_bucket)}

\* The distance (squared) of a record to the query point
RecordDist(rec) == distance(query_point, Point(rec[1], rec[2]))

\* How often the value v occurs in the sequence s
Occurrences(s, v) == Cardinality({j \in 1..Len(s) : s[j] = v})

\* No stored record outside the result is strictly closer to the query point
\* than a returned record (so none is closer than the farthest returned)
KnnExact ==
    \A i \in 1..Len(point_data) :
        point_data[i] \notin Returned =>
            \A rec \in Returned : RecordDist(point_data[i]) >= RecordDist(rec)

\* query_knn has returned, k >= 1
QueryDone(idx) == index = idx /\ pc = "done" /\ k >= 1

\* The bounds (x0, x1, y0, y1) the index was constructed with: those of the
\* root, less the nudge
ConfiguredBounds ==
    LET b == nodes[<<>>].bounds
    IN  Rectangle(b.xmin, b.xmax - EPS, b.ymin, b.ymax - EPS)

ValidBounds ==
    /\ ConfiguredBounds.xmin <= ConfiguredBounds.xmax
    /\ ConfiguredBounds.ymin <= ConfiguredBounds.ymax

\* Every record of the input lies within the configured bounds
InDomain ==
    \A i \in DOMAIN point_data :
        contains_pt(ConfiguredBounds, Point(point_data[i][1], point_data[i][2]))

\* C1: on a Quadtree built by build() from in-domain records, for k >= 1 and
\* any query point, no stored record outside the result of query_knn is
\* strictly closer to the query point than the farthest returned record.
C1_QuadtreeKnnExact ==
    (QueryDone("Quadtree") /\ ValidBounds /\ InDomain) => KnnExact

\* A query from outside the domain on a Quadtree of several leaves has
\* returned k records and left stored records out
C1_Witness ==
    /\ QueryDone("Quadtree")
    /\ ValidBounds
    /\ InDomain
    /\ Len(leaves) > 1
    /\ Len(query_bucket) = k
    /\ Len(point_data) > k
    /\ query_point = Point(7, 40)

\* C2: on a Zgrid built by build(records, r) from in-domain records at any
\* resolution r >= 0, for k >= 1 and any query point, no stored record
\* outside the result of query_knn is strictly closer to the query point
\* than the farthest returned record.
C2_ZgridKnnExact ==
    (QueryDone("Zgrid") /\ ValidBounds /\ InDomain) => KnnExact

\* A query on a Zgrid of resolution 2 has returned k records and left stored
\* records out
C2_Witness ==
    /\ QueryDone("Zgrid")
    /\ ValidBounds
    /\ InDomain
    /\ res = 2
    /\ Len(query_bucket) = k
    /\ Len(point_data) > k
    /\ query_point = Point(3, 5)

\* C4: on a Quadtree or a Zgrid, for k >= 1, the distances to the query point
\* of the sequence query_knn returns never increase from one element to the
\* next.
C4_FarthestFirst ==
    (QueryDone("Quadtree") \/ QueryDone("Zgrid")) =>
        \A j \in 1..(Len(query_bucket) - 1) :
            RecordDist(query_bucket[j]) >= RecordDist(query_bucket[j + 1])

\* A result of MaxK records whose first is strictly farther than its last
C4_Witness ==
    /\ QueryDone("Quadtree") \/ QueryDone("Zgrid")
    /\ Len(query_bucket) = MaxK
    /\ RecordDist(query_bucket[1]) > RecordDist(query_bucket[MaxK])

\* C5: on a Quadtree or a Zgrid built from n >= 0 records, for k >= 1,
\* query_knn returns exactly min(k, n) records, each of them a stored record,
\* and none more often than it was stored.
C5_ResultSize ==
    (QueryDone("Quadtree") \/ QueryDone("Zgrid")) =>
        /\ Len(query_bucket) = Min(k, Len(point_data))
        /\ \A rec \in Returned :
              /\ Occurrences(point_data, rec) >= 1
              /\ Occurrences(query_bucket, rec) <= Occurrences(point_data, rec)

\* Three records are stored and MaxK are asked for: the result is the three
C5_Witness ==
    /\ QueryDone("Quadtree") \/ QueryDone("Zgrid")
    /\ Len(point_data) = 3
    /\ k = MaxK
    /\ Len(query_bucket) = 3

\* The sum of the push counts
RECURSIVE SumOver(_, _)
SumOver(f, S) ==
    IF S = {} THEN 0
    ELSE LET c == CHOOSE c \in S : TRUE
         IN  f[c] + SumOver(f, S \ {c})

\* A query with k >= 1 is under way or has returned
Querying ==
    /\ index \in {"Quadtree", "Zgrid"}
    /\ pc \in {"loop", "scan", "drain", "done"}
    /\ k >= 1

\* C6: on a Quadtree or a Zgrid, for k >= 1 and any query point, the loop of
\* query_knn terminates: every iteration has popped exactly one node, every
\* node of the tree is pushed onto node_pq at most once, so that the
\* iterations number no more than the nodes; and with node_pq empty the
\* condition of the loop is false.
C6_QueryTerminates ==
    Querying =>
        /\ \A n \in DOMAIN pushes : n \in DOMAIN nodes /\ pushes[n] <= 1
        /\ Len(node_pq) + iters = SumOver(pushes, DOMAIN pushes)
        /\ iters <= Cardinality(DOMAIN nodes)
        /\ (pc = "loop" /\ node_pq = <<>>) => ~LoopCond
        /\ (pc = "loop" /\ ~LoopCond) => ENABLED QueryExit

\* A query from outside the domain with fewer records stored than k has
\* left the loop with node_pq empty, after an iteration for every node
C6_Witness ==
    /\ Querying
    /\ pc = "drain"
    /\ query_point = Point(7, 40)
    /\ Len(point_data) < k
    /\ node_pq = <<>>
    /\ iters = Cardinality(DOMAIN nodes)
    /\ iters > 1

\* The leaves below the node at path p
LeavesBelow(p) ==
    {q \in DOMAIN nodes :
        /\ Len(q) >= Len(p)
        /\ SubSeq(q, 1, Len(p)) = p
        /\ child(q, 0) \notin DOMAIN nodes}

\* C10: after build(), for every internal node of the Quadtree,
\* leaf_range.start is that of children[0], leaf_range.end is that of
\* children[3], the range of each child starts right after the end of the
\* range of the child before it, and the leaves of the subtree are exactly
\* the slice [leaf_range.start, leaf_range.end] of the leaf array, with
\* start <= end.
C10_LeafRangeContiguous ==
    (index = "Quadtree" /\ pc \notin {"constructed", "diverged"}) =>
        \A p \in DOMAIN nodes :
            /\ nodes[p].leaf_range.start <= nodes[p].leaf_range.end
            /\ {nodes[q].leaf_range.start : q \in LeavesBelow(p)}
                   = nodes[p].leaf_range.start..nodes[p].leaf_range.end
            /\ child(p, 0) \in DOMAIN nodes =>
                  /\ nodes[p].leaf_range.start = nodes[child(p, 0)].leaf_range.start
                  /\ nodes[p].leaf_range.end = nodes[child(p, 3)].leaf_range.end
                  /\ \A i \in 0..2 :
                        nodes[child(p, i + 1)].leaf_range.start
                            = nodes[child(p, i)].leaf_range.end + 1

\* A built Quadtree with an internal node below the root
C10_Witness ==
    /\ index = "Quadtree"
    /\ pc = "built"
    /\ \E p \in DOMAIN nodes :
          /\ p # <<>>
          /\ child(p, 0) \in DOMAIN nodes
          /\ nodes[p].leaf_range.end = nodes[p].leaf_range.start + 3

----------------------------------------------------------------------------
(* Properties of the R-tree *)

\* No insert has failed: build is between two inserts, or done
Inserted == index = "Rtree" /\ pc \in {"build", "built", "loop", "drain", "done"}

\* C3: on an R-tree built from a non-empty sequence of points, for k >= 1 and
\* any query point, no stored record outside the result of the best-first
\* query is strictly closer to the query point than the farthest returned
\* record.
C3_RtreeKnnExact == QueryDone("Rtree") => KnnExact

\* C7: after any sequence of inserts, the stored box of every entry that
\* holds a node (the root entry too) contains the box of every entry of
\* that node.
C7_MbbContainment ==
    Inserted =>
        /\ \A j \in 1..Len(rnodes[root_entry.node].entries) :
              contains(root_entry.mbb, rnodes[root_entry.node].entries[j].mbb)
        /\ \A a \in DOMAIN rnodes : \A i \in 1..Len(rnodes[a].entries) :
              ~is_leaf_entry(rnodes[a].entries[i]) =>
                  \A j \in 1..Len(rnodes[rnodes[a].entries[i].node].entries) :
                      contains(rnodes[a].entries[i].mbb,
                               rnodes[rnodes[a].entries[i].node].entries[j].mbb)

\* The number of entries holding a Datum below the node at address a
RECURSIVE LeafEntries(_, _)
RECURSIVE LeafEntriesFrom(_, _, _)
LeafEntriesFrom(h, a, i) ==
    IF i > Len(h[a].entries) THEN 0
    ELSE (IF is_leaf_entry(h[a].entries[i]) THEN 1
          ELSE LeafEntries(h, h[a].entries[i].node))
         + LeafEntriesFrom(h, a, i + 1)
LeafEntries(h, a) == LeafEntriesFrom(h, a, 1)

\* C8: after any sequence of inserts, the load of every node is the number
\* of entries holding a Datum in its subtree.
C8_LoadInvariant ==
    Inserted => \A a \in DOMAIN rnodes : rnodes[a].load = LeafEntries(rnodes, a)

\* C9: after every completed insert, every node of the tree holds at most M
\* entries.
C9_FanOut ==
    Inserted => \A a \in DOMAIN rnodes : Len(rnodes[a].entries) <= M

----------------------------------------------------------------------------
(* Properties of the construction of the Quadtree and of the Zgrid *)

\* build() has returned on a Quadtree
QuadtreeBuilt == index = "Quadtree" /\ pc \notin {"constructed", "diverged"}

\* How often the record rec is held in the buckets of the leaf array
StoredCount(rec) ==
    SumOver([c \in DOMAIN leaves |->
                Cardinality({j \in DOMAIN leaves[c] : leaves[c][j].data = rec})],
            DOMAIN leaves)

\* C11: after build(records) on a fresh Quadtree, every record is held in
\* the buckets of the leaf array as often as it occurs in the input, and the
\* buckets hold nothing else: the four-way partition loses no record and
\* duplicates none.
C11_RecordsConserved ==
    QuadtreeBuilt =>
        /\ SumOver([c \in DOMAIN leaves |-> Len(leaves[c])], DOMAIN leaves)
               = Len(point_data)
        /\ \A i \in DOMAIN point_data :
               StoredCount(point_data[i]) = Occurrences(point_data, point_data[i])
        /\ \A c \in DOMAIN leaves : \A j \in DOMAIN leaves[c] :
               /\ Occurrences(point_data, leaves[c][j].data) >= 1
               /\ leaves[c][j].point = Point(leaves[c][j].data[1], leaves[c][j].data[2])

\* MaxRecords records have been partitioned twice over, into seven leaves of
\* which three or more hold records
C11_Witness ==
    /\ index = "Quadtree"
    /\ pc = "built"
    /\ Len(point_data) = MaxRecords
    /\ Len(leaves) >= 7
    /\ Cardinality({c \in DOMAIN leaves : leaves[c] # <<>>}) >= 3

\* build() has just returned on a Zgrid of valid bounds, given in-domain
\* records (no query changes the nodes or the grid)
ZgridBuiltInDomain ==
    /\ index = "Zgrid"
    /\ pc = "built"
    /\ ValidBounds
    /\ InDomain

\* The code spelled by the child indices of the path p, the root's first
PathCode(p) == SumOver([i \in 1..Len(p) |-> p[i] * Pow4(Len(p) - i)], 1..Len(p))

\* Bit j (0 the lowest) of the natural n
Bit(n, j) == (n \div Pow2(j)) % 2

\* The childless nodes of the implicit tree
ZgridLeaves == {p \in DOMAIN nodes : zgrid_is_leaf(nodes, p)}

\* The datum d of grid[c] agrees with the leaf at path p: the leaf has the
\* code c, its closed bounds contain the point, and the child index of every
\* level of p is the x bit plus twice the y bit of the point's cell indices
AgreesWithLeaf(d, c, p) ==
    LET b == nodes[<<>>].bounds
        cellx == grid_index(d.point.x, b.xmin, b.xmax, Pow2(res))
        celly == grid_index(d.point.y, b.ymin, b.ymax, Pow2(res))
    IN  /\ nodes[p].code = c
        /\ PathCode(p) = c
        /\ contains_pt(nodes[p].bounds, d.point)
        /\ \A i \in 1..Len(p) :
               p[i] = Bit(cellx, Len(p) - i) + 2 * Bit(celly, Len(p) - i)

\* C12: after build at resolution r on a Zgrid from in-domain points, every
\* datum stored in grid[c] has zorder_hash(point, r) = c and lies within the
\* closed bounds of the leaf of the implicit tree whose code is c, and c is
\* the path of child indices (x bit + 2 * y bit at each level) from the root
\* to that leaf.
C12_CellTreeConsistent ==
    ZgridBuiltInDomain =>
        \A c \in DOMAIN leaves : \A j \in DOMAIN leaves[c] :
            /\ zorder_hash(nodes[<<>>].bounds, leaves[c][j].point, res) = c - 1
            /\ \E p \in ZgridLeaves : AgreesWithLeaf(leaves[c][j], c - 1, p)
            /\ \A p \in ZgridLeaves :
                   nodes[p].code = c - 1 => AgreesWithLeaf(leaves[c][j], c - 1, p)

\* A Zgrid of resolution 2 holds MaxRecords in-domain records in five cells
\* or more, one of them a cell of code 9 or more
C12_Witness ==
    /\ ZgridBuiltInDomain
    /\ res = 2
    /\ Len(point_data) = MaxRecords
    /\ Cardinality({c \in DOMAIN leaves : leaves[c] # <<>>}) >= 5
    /\ \E c \in DOMAIN leaves : c > 9 /\ leaves[c] # <<>>

\* C13: after build(records, r) on a fresh Zgrid, size() is 4^r; the
\* implicit tree is full, its childless nodes being exactly the nodes at
\* depth r; the codes of the leaves are pairwise distinct and are exactly
\* 0 .. 4^r - 1; and the leaves below a node of code c at depth d have
\* exactly the codes c * 4^(r-d) .. (c+1) * 4^(r-d) - 1.
C13_ZgridStructure ==
    (index = "Zgrid" /\ pc = "built") =>
        /\ size = Pow4(res)
        /\ \A p \in DOMAIN nodes :
               /\ nodes[p].depth = Len(p)
               /\ zgrid_is_leaf(nodes, p) <=> nodes[p].depth = res
               /\ ~zgrid_is_leaf(nodes, p) =>
                      \A i \in 0..3 : child(p, i) \in DOMAIN nodes
               /\ {nodes[q].code : q \in LeavesBelow(p)}
                      = (nodes[p].code * Pow4(res - nodes[p].depth))
                        ..((nodes[p].code + 1) * Pow4(res - nodes[p].depth) - 1)
        /\ {nodes[p].code : p \in ZgridLeaves} = 0..(Pow4(res) - 1)
        /\ Cardinality(ZgridLeaves) = Pow4(res)

\* A Zgrid built at resolution 2: sixteen buckets below four internal nodes
C13_Witness ==
    /\ index = "Zgrid"
    /\ pc = "built"
    /\ res = 2
    /\ size = 16
    /\ Cardinality(DOMAIN nodes) = 21
    /\ point_data # <<>>

\* C14: a Quadtree or Zgrid constructed with x0 > x1 or y0 > y1 is rejected
\* and yields no usable index: on no index of such bounds does a build
\* succeed or a query return.
C14_InvalidBoundsRejected ==
    (index \in {"Quadtree", "Zgrid"} /\ pc \in {"built", "done"}) => ValidBounds

\* C15: query_knn(0, x, y) on a Quadtree or Zgrid is rejected with InvalidK
\* before its loop: no query with k = 0 has pushed the root onto node_pq,
\* and none reads the top of an empty datum_pq.
C15_ZeroKRejected ==
    (index \in {"Quadtree", "Zgrid"} /\ k = 0 /\ node_pq # <<>>) =>
        /\ pc # "undefined"
        /\ ~ENABLED QueryPeekEmpty

\* The index, along one axis, of the cell of the 2^d equal parts of
\* [min, max] that holds coord, each part taking its upper end: the number
\* of the cuts below coord
CellIndex(coord, min, max, d) ==
    Cardinality({m \in 1..(Pow2(d) - 1) : (coord - min) * Pow2(d) > m * (max - min)})

\* Every cell of the 2^d x 2^d grid over the rectangle b holds exactly c of
\* the records
Occupancy(b, d, c) ==
    /\ Len(point_data) = c * Pow4(d)
    /\ \A i, j \in 0..(Pow2(d) - 1) :
           Cardinality({n \in DOMAIN point_data :
               /\ CellIndex(point_data[n][1], b.xmin, b.xmax, d) = i
               /\ CellIndex(point_data[n][2], b.ymin, b.ymax, d) = j}) = c

\* The tree is complete at depth d
CompleteAt(d) ==
    /\ num_leaves = Pow4(d)
    /\ \A p \in DOMAIN nodes : is_leaf(nodes[p]) => nodes[p].depth = d

\* build() has just returned on a Quadtree of valid bounds
QuadtreeJustBuilt == index = "Quadtree" /\ pc = "built" /\ ValidBounds

\* C19 as stated: when every cell of the uniform 2^d x 2^d grid over the
\* configured bounds [x0, x1] x [y0, y1] holds exactly c records, with
\* c <= LEAF_CAPACITY < 4c, build() yields a complete quadtree of 4^d
\* leaves, all at depth d.
C19_CompleteOverDomain ==
    QuadtreeJustBuilt =>
        \A d \in 0..MaxDepth : \A c \in 1..LEAF_CAPACITY :
            (4 * c > LEAF_CAPACITY /\ Occupancy(ConfiguredBounds, d, c))
                => CompleteAt(d)

\* C19, amended: when every cell of the 2^d x 2^d grid over the bounds of
\* the root, [x0, x1 + 0.01] x [y0, y1 + 0.01], each cell taking its upper
\* edges, holds exactly c records, with c <= LEAF_CAPACITY < 4c, build()
\* yields a complete quadtree of 4^d leaves, all at depth d.
C19_CompleteOverRoot ==
    QuadtreeJustBuilt =>
        \A d \in 0..MaxDepth : \A c \in 1..LEAF_CAPACITY :
            (4 * c > LEAF_CAPACITY /\ Occupancy(nodes[<<>>].bounds, d, c))
                => CompleteAt(d)

\* Five records in each child of the root, three of them on the centre
\* lines: four leaves at depth 1
C19_Witness ==
    /\ QuadtreeJustBuilt
    /\ Occupancy(nodes[<<>>].bounds, 1, 5)
    /\ ~Occupancy(ConfiguredBounds, 1, 5)
    /\ num_leaves = 4
    /\ \E n \in DOMAIN point_data : point_data[n][1] = 8 /\ point_data[n][2] = 8

----------------------------------------------------------------------------
(* Further properties of the R-tree *)

\* C16: Rtree::build of an empty sequence of records completes without
\* reading a record and leaves an empty index: a root node of no entries,
\* get_load() = 0, and an empty result for a later query.
C16_EmptyBuild ==
    (index = "Rtree" /\ pc # "constructed" /\ point_data = <<>>) =>
        /\ pc # "undefined"
        /\ get_load = 0
        /\ rnodes[root_entry.node].entries = <<>>
        /\ pc = "done" => query_bucket = <<>>

\* C17: Quadtree::build rejects a record whose point lies strictly outside
\* the configured bounds: no built Quadtree holds a datum in a leaf whose
\* bounds do not contain its point.
C17_QuadtreeRejectsOutliers ==
    (index = "Quadtree" /\ pc = "built" /\ ValidBounds) =>
        \A p \in DOMAIN nodes :
            is_leaf(nodes[p]) =>
                \A j \in DOMAIN QuadtreeBucket(p) :
                    contains_pt(nodes[p].bounds, QuadtreeBucket(p)[j].point)

\* The index of the partition of [min, max] nearest to coord
NearestCell(coord, min, max, dim) ==
    IF coord < min THEN 0
    ELSE IF coord >= max THEN dim - 1
    ELSE grid_index(coord, min, max, dim)

\* Zgrid::build has ended in an access outside the grid
ZgridBuildUndefined == index = "Zgrid" /\ pc = "undefined" /\ node_pq = <<>>

\* C18: Zgrid::build stores a record whose point lies strictly outside the
\* configured bounds in the nearest cell of the grid: the code that indexes
\* the grid is always within [0, 4^r), so that no build ends in an access
\* outside the grid, and every datum is in the cell nearest to its point.
C18_ZgridClampsOutliers ==
    (index = "Zgrid" /\ ValidBounds) =>
        /\ ~ZgridBuildUndefined
        /\ pc = "built" =>
               \A c \in DOMAIN leaves : \A j \in DOMAIN leaves[c] :
                   LET b == nodes[<<>>].bounds
                       pt == leaves[c][j].point
                   IN  c - 1 = interleave(
                           NearestCell(pt.x, b.xmin, b.xmax, Pow2(res)),
                           NearestCell(pt.y, b.ymin, b.ymax, Pow2(res)))

\* C20: after build over n records, and after every one of its n inserts
\* (across leaf splits and root splits), get_load() is the number of
\* inserts made, which is the size of the datum store.
C20_TotalLoad ==
    Inserted =>
        /\ get_load = Len(data)
        /\ pc # "build" => get_load = Len(point_data)
        /\ \A i \in DOMAIN data : data[i] = Datum(point_data[i])

\* MaxInserts records have been inserted and the root has been split twice:
\* an entry of the root node holds a node whose entries hold nodes
C20_Witness ==
    /\ Inserted
    /\ pc = "built"
    /\ Len(data) = MaxInserts
    /\ \E i \in DOMAIN rnodes[root_entry.node].entries :
          LET e == rnodes[root_entry.node].entries[i]
          IN  /\ ~is_leaf_entry(e)
              /\ \E j \in DOMAIN rnodes[e.node].entries :
                    ~is_leaf_entry(rnodes[e.node].entries[j])

\* Every entry of the node n holds a Datum (so for a node of no entries)
AllLeafEntries(n) == \A i \in DOMAIN n.entries : is_leaf_entry(n.entries[i])

\* Every entry of the node n holds a Node
AllNodeEntries(n) == \A i \in DOMAIN n.entries : ~is_leaf_entry(n.entries[i])

\* C21: after any sequence of inserts, no node holds both entries with a
\* Datum and entries with a Node, and is_leaf() (entries.size() == load) is
\* true exactly of the nodes whose entries all hold a Datum; a node made by
\* the split of an internal node is not taken for a leaf.
C21_NodeHomogeneity ==
    Inserted =>
        \A a \in DOMAIN rnodes :
            /\ AllLeafEntries(rnodes[a]) \/ AllNodeEntries(rnodes[a])
            /\ node_is_leaf(rnodes[a]) <=> AllLeafEntries(rnodes[a])

\* C22: whenever split or split_root splits an overflowing node, each of the
\* two new group nodes ends up with an entry or more, whatever the pool
\* (collinear and coincident points too): every node of the tree other than
\* the root of an empty tree holds an entry.
C22_GroupsNonEmpty ==
    Inserted =>
        \A a \in DOMAIN rnodes :
            rnodes[a].entries = <<>> => (a = root_entry.node /\ data = <<>>)

\* The entries (node address, position) that hold the node at address b
ReferencesTo(b) ==
    {e \in {<<a, i>> : a \in DOMAIN rnodes, i \in 1..MaxInserts} :
        /\ e[2] \in DOMAIN rnodes[e[1]].entries
        /\ ~is_leaf_entry(rnodes[e[1]].entries[e[2]])
        /\ rnodes[e[1]].entries[e[2]].node = b}

\* The entries (node address, position) that hold the Datum d
HoldersOf(d) ==
    {e \in {<<a, i>> : a \in DOMAIN rnodes, i \in 1..MaxInserts} :
        /\ e[2] \in DOMAIN rnodes[e[1]].entries
        /\ is_leaf_entry(rnodes[e[1]].entries[e[2]])
        /\ rnodes[e[1]].entries[e[2]].datum = d}

\* C23: when split or split_root has returned, every entry of the
\* overflowing node is in exactly one of the two group nodes, the
\* overflowing node is no longer reachable, and every node of the tree is
\* held by exactly one entry.  As an invariant of the tree after every
\* insert: every Datum inserted is held by exactly one entry and is
\* reachable from the root, every entry that holds a node holds a live
\* one, and every node but the root's is held by exactly one entry.
C23_SplitConserves ==
    Inserted =>
        /\ \A i \in DOMAIN data : Cardinality(HoldersOf(data[i])) = 1
        /\ LeafEntries(rnodes, root_entry.node) = Len(data)
        /\ \A a \in DOMAIN rnodes : \A i \in DOMAIN rnodes[a].entries :
               \/ is_leaf_entry(rnodes[a].entries[i])
               \/ rnodes[a].entries[i].node \in DOMAIN rnodes
        /\ \A b \in DOMAIN rnodes :
               Cardinality(ReferencesTo(b)) = IF b = root_entry.node THEN 0 ELSE 1

\* The root has been split twice and an internal node once: a node whose
\* entries all hold nodes came out of distribute, an entry a load
C23_Witness ==
    /\ Inserted
    /\ Len(data) >= 3 * M
    /\ \E a \in DOMAIN rnodes :
          /\ a # root_entry.node
          /\ rnodes[a].entries # <<>>
          /\ AllNodeEntries(rnodes[a])
          /\ rnodes[a].load = Len(rnodes[a].entries)

----------------------------------------------------------------------------
(* Properties of the member functions called on their own *)

\* The area the box of the entry e must grow by to include the point p
Expansion(e, p) == area(min_bounding_box_pt(e.mbb, p)) - area(e.mbb)

\* C24: for every non-empty list of entries and every point p,
\* choose_branch(p) returns a valid index whose entry needs the least
\* expansion of its box to include p and, among the entries of that least
\* expansion, has the least area.
C24_ChooseBranch ==
    (index = "Node" /\ pc = "chosen") =>
        LET es == rnodes[1].entries
        IN  /\ ret \in 1..Len(es)
            /\ \A j \in 1..Len(es) :
                   /\ Expansion(es[ret], query_point) <= Expansion(es[j], query_point)
                   /\ Expansion(es[ret], query_point) = Expansion(es[j], query_point)
                          => area(es[ret].mbb) <= area(es[j].mbb)

\* choose_branch has returned the third of three entries: the first needs
\* the same (least) expansion and has the larger box
C24_Witness ==
    /\ index = "Node"
    /\ pc = "chosen"
    /\ Len(rnodes[1].entries) = 3
    /\ ret = 3
    /\ Expansion(rnodes[1].entries[1], query_point)
           = Expansion(rnodes[1].entries[3], query_point)
    /\ Expansion(rnodes[1].entries[2], query_point)
           > Expansion(rnodes[1].entries[3], query_point)
    /\ area(rnodes[1].entries[1].mbb) > area(rnodes[1].entries[3].mbb)

\* The value pick_seeds maximises for the pair of boxes (e1, e2)
SeedWaste(e1, e2) == area(min_bounding_box(e1.mbb, e2.mbb)) - area(e1.mbb) - area(e2.mbb)

C26_HashInRange ==
    (index = "Zgrid" /\ pc = "hashed") =>
        /\ ret[1] \in 0..(Pow2(res) - 1)
        /\ ret[2] \in 0..(Pow2(res) - 1)
        /\ res < 16 => ret[3] \in 0..(Pow4(res) - 1)

----------------------------------------------------------------------------
(* Further properties of query_knn on the Quadtree and the Zgrid *)

\* The nodes whose bucket query_knn scans
LeafNodes == {p \in DOMAIN nodes : NodeIsLeaf(p)}

\* The leaf at path p was popped from node_pq: its bucket was offered to
\* datum_pq, all of it once the scan is over
Popped(p) == p \in DOMAIN pushes /\ \A i \in DOMAIN node_pq : node_pq[i].node # p

\* The node at path a is the node at path p or one above it
Above(a, p) == Len(a) <= Len(p) /\ SubSeq(p, 1, Len(a)) = a

\* query_knn is at the condition of its loop, the index built from in-domain
\* records
AtLoopCondition ==
    /\ index \in {"Quadtree", "Zgrid"}
    /\ pc = "loop"
    /\ ValidBounds
    /\ InDomain

\* C27: whenever query_knn (Quadtree and Zgrid, in-domain data) evaluates
\* the condition of its loop, every stored datum not yet offered to datum_pq
\* lies in the subtree of a node that is in node_pq, and is no closer to the
\* query point than node_pq.peek().dist.
C27_BrowsingInvariant ==
    AtLoopCondition =>
        \A p \in LeafNodes :
            ~Popped(p) =>
                \A j \in DOMAIN Bucket(p) :
                    /\ \E i \in DOMAIN node_pq : Above(node_pq[i].node, p)
                    /\ distance(query_point, Bucket(p)[j].point) >= NodePQ_peek(node_pq)

\* After two iterations or more the bucket of one leaf was offered, another
\* leaf that holds data waits below a node of node_pq that is no leaf, and
\* the closest node queued is at a distance above 0
C27_Witness ==
    /\ AtLoopCondition
    /\ k >= 1
    /\ iters >= 2
    /\ \E p \in LeafNodes : Popped(p) /\ Bucket(p) # <<>>
    /\ \E p \in LeafNodes :
          /\ ~Popped(p)
          /\ Bucket(p) # <<>>
          /\ \E i \in DOMAIN node_pq : Above(node_pq[i].node, p) /\ node_pq[i].node # p
    /\ NodePQ_peek(node_pq) > 0

\* The data of the bucket of the popped leaf p that were offered to datum_pq:
\* those before the position of the scan, or all of them
OfferedFrom(p) ==
    IF pc = "scan" /\ next_node.node = p
    THEN SubSeq(Bucket(p), 1, next_node.pos - 1)
    ELSE Bucket(p)

PoppedLeaves == {p \in LeafNodes : Popped(p)}

\* The data offered to datum_pq, each by its leaf and its place in the bucket
Offered == UNION {{<<p, j>> : j \in DOMAIN OfferedFrom(p)} : p \in PoppedLeaves}

OfferedDatum(pj) == Bucket(pj[1])[pj[2]]

\* How often datum_pq holds the datum d
QueuedCount(d) == Cardinality({i \in DOMAIN datum_pq : datum_pq[i].datum = d})

\* datum_pq holds the best of the m data offered so far
BestSoFar ==
    LET offered == Offered
    IN  /\ Len(datum_pq) = Min(k, Cardinality(offered))
        /\ \A i \in DOMAIN datum_pq :
              /\ \E pj \in offered : OfferedDatum(pj) = datum_pq[i].datum
              /\ datum_pq[i].dist = distance(query_point, datum_pq[i].datum.point)
        /\ \A pj \in offered :
              LET d == OfferedDatum(pj)
                  m == Cardinality({q \in offered : OfferedDatum(q) = d})
              IN  /\ QueuedCount(d) <= m
                  /\ QueuedCount(d) < m =>
                         distance(query_point, d.point) >= DatumPQ_peek(datum_pq)

\* The step of the leaf scan that calls datum_pq.choose(query_point, d)
ChooseStep ==
    (/\ index \in {"Quadtree", "Zgrid"}
     /\ pc = "scan"
     /\ next_node.pos <= Len(Bucket(next_node.node))
     /\ Len(datum_pq) >= k) =>
        LET d == Bucket(next_node.node)[next_node.pos]
            new_dist == distance(query_point, d.point)
        IN  /\ Len(datum_pq') = Len(datum_pq)
            /\ datum_pq' # datum_pq =>
                   /\ new_dist < DatumPQ_peek(datum_pq)
                   /\ \E i \in DatumPQ_top(datum_pq) :
                          datum_pq' = Append(Remove(datum_pq, i),
                                             [datum |-> d, dist |-> new_dist])

\* C28: throughout query_knn datum_pq never holds more than k data; after m
\* data were offered (push while the size is below k, choose otherwise) it
\* holds min(k, m) of them, and no offered datum outside the queue is
\* strictly closer to the query point than the top of the queue; choose()
\* replaces the top only when the new datum is strictly closer, and never
\* changes the size of the queue.
C28_DatumQueueBest ==
    /\ [](index \in {"Quadtree", "Zgrid"} =>
            /\ Len(datum_pq) <= k
            /\ pc \in {"loop", "scan"} => BestSoFar)
    /\ [][ChooseStep]_vars

\* k data or more were offered before, and the datum the scan has just
\* offered took the place of the top: others that were offered are left out
C28_Witness ==
    /\ index \in {"Quadtree", "Zgrid"}
    /\ pc = "scan"
    /\ k >= 1
    /\ next_node.pos >= 2
    /\ Cardinality(Offered) > k
    /\ Len(datum_pq) = k
    /\ datum_pq[k].datum = Bucket(next_node.node)[next_node.pos - 1]
    /\ \E pj \in Offered : QueuedCount(OfferedDatum(pj)) = 0

----------------------------------------------------------------------------
(* The shape of the Quadtree, and the end of its construction *)

\* The children the node at path p owns
ChildrenOf(p) == {q \in DOMAIN nodes : Len(q) = Len(p) + 1 /\ Above(p, q)}

\* How many records the buckets of the leaves below the node at path p hold
RecordsBelow(p) ==
    SumOver([q \in LeavesBelow(p) |-> Len(QuadtreeBucket(q))], LeavesBelow(p))

\* C29: after build(), Node::is_leaf() (leaf_range.start == leaf_range.end)
\* is true of exactly the nodes of the Quadtree that have no children; the
\* bucket leaves[leaf_range.start] of each of them holds LEAF_CAPACITY = 16
\* records at most; and every node with children has exactly four and more
\* than LEAF_CAPACITY records below it.
C29_LeafPredicate ==
    (index = "Quadtree" /\ pc = "built") =>
        \A p \in DOMAIN nodes :
            /\ is_leaf(nodes[p]) <=> ChildrenOf(p) = {}
            /\ is_leaf(nodes[p]) =>
                   /\ nodes[p].leaf_range.start + 1 \in DOMAIN leaves
                   /\ Len(QuadtreeBucket(p)) <= LEAF_CAPACITY
            /\ ChildrenOf(p) # {} =>
                   /\ ChildrenOf(p) = {child(p, i) : i \in 0..3}
                   /\ RecordsBelow(p) > LEAF_CAPACITY

\* A tree of two levels of nodes with children: the lower node holds
\* LEAF_CAPACITY + 1 records in four leaves, none of them all of the records
C29_Witness ==
    /\ index = "Quadtree"
    /\ pc = "built"
    /\ \E p \in DOMAIN nodes :
          /\ p # <<>>
          /\ ChildrenOf(p) # {}
          /\ RecordsBelow(p) = LEAF_CAPACITY + 1
          /\ \A q \in ChildrenOf(p) :
                is_leaf(nodes[q]) /\ Len(QuadtreeBucket(q)) <= LEAF_CAPACITY

\* C30: Quadtree::build returns, after finitely many calls of Node::insert,
\* for every finite sequence of in-domain records, those included in which
\* more than LEAF_CAPACITY records have the same coordinates (all the records
\* of a node then go to the same child).
C30_BuildTerminates ==
    (index = "Quadtree" /\ ValidBounds /\ InDomain) => pc # "diverged"

====
